---- MODULE Spec2Model ----
(***************************************************************************)
(* Model of scripts/jni_on_load_generator.py: the JNI loader generator for *)
(* Kotlin @NativeExport functions.                                         *)
(*                                                                         *)
(* Strings the code slices, tests by prefix/suffix or searches are         *)
(* modelled as sequences of one-character strings.                         *)
(***************************************************************************)
EXTENDS Integers, Sequences, FiniteSets, TLC

VARIABLES
    \* kotlin_to_jni_type: the call being made and its result
    ktype, nullable, sig, elemSig, mpc,
    \* find_kotlin_files: its argument, loop position, local list and result
    input_paths, sidx, kotlin_files, found, spc,
    \* the files' contents on disk
    disk,
    \* extract_native_exports: its argument, loop position, the class name of
    \* the file last scanned, the accumulated result, and how the call stands
    kt_files, eidx, class_name, class_methods, estatus,
    \* main: where one run of the generator stands, which run it is, the
    \* --helper-class argument, the file written, and the one a first run wrote
    gpc, run, helper_class, output, firstOutput,
    \* the generated library in a JVM: where JNI_OnLoad / JNI_OnUnload stand,
    \* the next statement, the locals helper and clazzRef, the helper singletons
    \* holding state, whether logging is up, the calls made on the helper, and
    \* what JNI_OnLoad returned
    lpc, ip, helper, clazzRef, held, logging, events, result

mapVars == <<ktype, nullable, sig, elemSig, mpc>>
scanVars == <<input_paths, sidx, kotlin_files, found, spc>>
extVars == <<kt_files, eidx, class_name, class_methods, estatus>>
genVars == <<gpc, run, helper_class, output, firstOutput>>
loadVars == <<lpc, ip, helper, clazzRef, held, logging, events, result>>
vars == <<mapVars, scanVars, disk, extVars, genVars, loadVars>>

----------------------------------------------------------------------------
(* Python values *)

\* Python's None; no character string equals it.
None == <<"None">>

\* Python truthiness of an Optional[str]: None and "" are falsy.
Truthy(s) == s # None /\ s # <<>>

\* str.endswith
EndsWith(s, suffix) ==
    /\ Len(s) >= Len(suffix)
    /\ SubSeq(s, Len(s) - Len(suffix) + 1, Len(s)) = suffix

\* str.startswith
StartsWith(s, prefix) ==
    /\ Len(s) >= Len(prefix)
    /\ SubSeq(s, 1, Len(prefix)) = prefix

\* `a in b` for two strings: a is a substring of b
IsSubstring(a, b) ==
    \E i \in 0..(Len(b) - Len(a)) : SubSeq(b, i + 1, i + Len(a)) = a

----------------------------------------------------------------------------
(* kotlin_to_jni_type *)

ArraySuffix == <<"A","r","r","a","y">>

KtInt     == <<"I","n","t">>
KtFloat   == <<"F","l","o","a","t">>
KtDouble  == <<"D","o","u","b","l","e">>
KtLong    == <<"L","o","n","g">>
KtBoolean == <<"B","o","o","l","e","a","n">>
KtByte    == <<"B","y","t","e">>
KtShort   == <<"S","h","o","r","t">>
KtChar    == <<"C","h","a","r">>
KtString  == <<"S","t","r","i","n","g">>
KtUnit    == <<"U","n","i","t">>

JavaLang == <<"L","j","a","v","a","/","l","a","n","g","/">>

StringSig == JavaLang \o <<"S","t","r","i","n","g",";">>

\* the dict `mapping`; dict.get returns None for a missing key
mapping(k) ==
    CASE k = KtInt     -> <<"I">>
      [] k = KtFloat   -> <<"F">>
      [] k = KtDouble  -> <<"D">>
      [] k = KtLong    -> <<"J">>
      [] k = KtBoolean -> <<"Z">>
      [] k = KtByte    -> <<"B">>
      [] k = KtShort   -> <<"S">>
      [] k = KtChar    -> <<"C">>
      [] k = KtString  -> StringSig
      [] k = KtUnit    -> <<"V">>
      [] OTHER       -> None

\* the dict `wrapper_mapping`, indexed only by keys it holds
wrapper_mapping(s) ==
    CASE s = <<"I">> -> JavaLang \o <<"I","n","t","e","g","e","r",";">>
      [] s = <<"F">> -> JavaLang \o <<"F","l","o","a","t",";">>
      [] s = <<"D">> -> JavaLang \o <<"D","o","u","b","l","e",";">>
      [] s = <<"J">> -> JavaLang \o <<"L","o","n","g",";">>
      [] s = <<"Z">> -> JavaLang \o <<"B","o","o","l","e","a","n",";">>
      [] s = <<"B">> -> JavaLang \o <<"B","y","t","e",";">>
      [] s = <<"S">> -> JavaLang \o <<"S","h","o","r","t",";">>
      [] s = <<"C">> -> JavaLang \o <<"C","h","a","r","a","c","t","e","r",";">>

\* ktype[:-4]: one character too few removed
ElementTypeShort(t) == SubSeq(t, 1, Len(t) - 4)

\* ktype[:-5]
ElementType(t) == SubSeq(t, 1, Len(t) - 5)

\* boxes whatever the nullability
NeedsWrapperAlways(n, base_sig) ==
    IsSubstring(base_sig, <<"I","F","D","J","Z","B","S","C">>)

\* nullable and base_sig in "IFDJZBSC"
NeedsWrapper(n, base_sig) ==
    n /\ IsSubstring(base_sig, <<"I","F","D","J","Z","B","S","C">>)

RECURSIVE kotlin_to_jni_type(_, _)
kotlin_to_jni_type(t, n) ==
    IF EndsWith(t, ArraySuffix)
    THEN LET element_sig == kotlin_to_jni_type(ElementType(t), FALSE)
         IN  IF Truthy(element_sig) THEN <<"[">> \o element_sig ELSE None
    ELSE LET base_sig == mapping(t)
         IN  IF ~Truthy(base_sig) THEN None
             ELSE IF NeedsWrapper(n, base_sig) THEN wrapper_mapping(base_sig)
             ELSE base_sig

----------------------------------------------------------------------------
(* Calls of kotlin_to_jni_type on a bounded set of type names *)

\* how many "Array" suffixes a type name of the model carries at most
MaxArrayDepth == 2

Foo == <<"F","o","o">>

TableNames == {KtInt, KtFloat, KtDouble, KtLong, KtBoolean, KtByte, KtShort, KtChar,
               KtString, KtUnit}

\* names the table knows, one it does not know, and the empty name
BaseNames == TableNames \cup {Foo, <<>>}

RECURSIVE ArrayOf(_, _)
ArrayOf(t, d) == IF d = 0 THEN t ELSE ArrayOf(t, d - 1) \o ArraySuffix

RECURSIVE ArrayDepth(_)
ArrayDepth(t) ==
    IF EndsWith(t, ArraySuffix)
    THEN 1 + ArrayDepth(SubSeq(t, 1, Len(t) - Len(ArraySuffix)))
    ELSE 0

TypeNames == {ArrayOf(b, d) : b \in BaseNames, d \in 0..MaxArrayDepth}

\* no call of kotlin_to_jni_type under way
IdleMap ==
    /\ ktype = <<>>
    /\ nullable = FALSE
    /\ sig = None
    /\ elemSig = None
    /\ mpc = "idle"

InitMapCall ==
    /\ ktype \in TypeNames
    /\ nullable \in BOOLEAN
    /\ sig = None
    /\ elemSig = None
    /\ mpc = "start"

\* kotlin_to_jni_type(ktype, nullable)
MapType ==
    /\ mpc = "start"
    /\ sig' = kotlin_to_jni_type(ktype, nullable)
    /\ mpc' = "mapped"
    /\ UNCHANGED <<ktype, nullable, elemSig>>
    /\ UNCHANGED <<scanVars, disk, extVars, genVars, loadVars>>

\* after kotlin_to_jni_type(X, False): kotlin_to_jni_type(X + "Array", False)
MapArrayOf ==
    /\ mpc \in {"mapped", "array"}
    /\ nullable = FALSE
    /\ ArrayDepth(ktype) <= MaxArrayDepth
    /\ ktype' = ktype \o ArraySuffix
    /\ elemSig' = sig
    /\ sig' = kotlin_to_jni_type(ktype', FALSE)
    /\ mpc' = "array"
    /\ UNCHANGED nullable
    /\ UNCHANGED <<scanVars, disk, extVars, genVars, loadVars>>

----------------------------------------------------------------------------
(* find_kotlin_files *)

\* the .kt files on disk, all in the directory d of the working directory
NumFiles == 2

\* how many input paths one call is given at most
MaxInputs == 2

FileIds == 1..NumFiles

(* An input string, by what it names and how it is written:
     file rel     "d/a.kt"           file dot     "./d/a.kt"
     file abs     "/cwd/d/a.kt"      file dotdot  "d/../d/a.kt"
     dir rel      "d"                dir abs      "/cwd/d"
     glob rel     "d/*.kt"           (file 0: every file)
     glob rel     "d/a*.kt"          (file f: that file alone)
     none         a name nothing on disk answers to                    *)
InputStrings ==
    [kind : {"file"}, form : {"rel", "dot", "abs", "dotdot"}, file : FileIds]
    \cup [kind : {"dir"}, form : {"rel", "abs"}, file : {0}]
    \cup [kind : {"glob"}, form : {"rel"}, file : {0} \cup FileIds]
    \cup [kind : {"none"}, form : {"rel"}, file : {0}]

\* Path(s): pathlib drops a leading "./", keeps ".." and keeps a root
PathForm(form) == IF form = "dot" THEN "rel" ELSE form

\* a Path object: equality and hash are those of its written form
PathObj(form, f) == [form |-> PathForm(form), file |-> f]

\* the paths of the files of ids as rglob/glob yield them: in the directory's
\* listing order, which an unchanged disk keeps (here: by file number)
RECURSIVE PathsOf(_, _, _)
PathsOf(form, ids, from) ==
    IF from > NumFiles THEN <<>>
    ELSE (IF from \in ids THEN <<PathObj(form, from)>> ELSE <<>>)
         \o PathsOf(form, ids, from + 1)

\* what one iteration of the loop over input_paths adds to kotlin_files
Matches(inp) ==
    CASE inp.kind = "file" -> <<PathObj(inp.form, inp.file)>>
      [] inp.kind = "dir"  -> PathsOf(inp.form, FileIds, 1)
      [] inp.kind = "glob" ->
           PathsOf("rel", IF inp.file = 0 THEN FileIds ELSE {inp.file}, 1)
      [] OTHER -> <<>>

Range(s) == {s[i] : i \in DOMAIN s}

RECURSIVE Orders(_)
Orders(S) ==
    IF S = {} THEN {<<>>}
    ELSE UNION {{<<x>> \o p : p \in Orders(S \ {x})} : x \in S}

\* list(set(xs)): the elements of xs once each, in the set's iteration order,
\* which follows the hashes of the paths
ListOfSet(xs) == Orders(Range(xs))

RECURSIVE SeqsUpTo(_, _)
SeqsUpTo(S, n) ==
    IF n = 0 THEN {<<>>}
    ELSE LET shorter == SeqsUpTo(S, n - 1)
         IN  shorter \cup {Append(q, x) : q \in shorter, x \in S}

IdleScan ==
    /\ input_paths = <<>>
    /\ sidx = 0
    /\ kotlin_files = <<>>
    /\ found = <<>>
    /\ spc = "idle"

InitScanCall ==
    /\ input_paths \in SeqsUpTo(InputStrings, MaxInputs) \ {<<>>}
    /\ sidx = 1
    /\ kotlin_files = <<>>
    /\ found = <<>>
    /\ spc = "loop"

\* one iteration of `for input_path in input_paths`
ScanInput ==
    /\ spc = "loop"
    /\ sidx <= Len(input_paths)
    /\ kotlin_files' = kotlin_files \o Matches(input_paths[sidx])
    /\ sidx' = sidx + 1
    /\ UNCHANGED <<input_paths, found, spc>>
    /\ UNCHANGED <<mapVars, disk, extVars, genVars, loadVars>>

\* return list(set(kotlin_files))
ReturnFiles ==
    /\ spc = "loop"
    /\ sidx > Len(input_paths)
    /\ found' \in ListOfSet(kotlin_files)
    /\ spc' = "done"
    /\ UNCHANGED <<input_paths, sidx, kotlin_files>>
    /\ UNCHANGED <<mapVars, disk, extVars, genVars, loadVars>>

----------------------------------------------------------------------------
(* Kotlin source text *)

(* A file's text is the sequence of its declarations, in text order.

   A class/object declaration, by what precedes the keyword on its line:
     lead "none"    class Foo
     lead "vis"     public class Foo        (public|private|internal|protected)
     lead "mod"     data class Foo          (abstract|final|open|sealed|data|inner)*
     lead "vismod"  public data class Foo
     lead "other"   annotation class Foo    (any other word: annotation, enum, ...)

   A function declaration `@NativeExport fun name(params): ret`; a parameter
   is the text up to the next comma: with a colon, `x: type`, or without.
   ret is None where the declaration gives no return type.               *)

NativePrefix == <<"N","a","t","i","v","e">>
NativeExportName == NativePrefix \o <<"E","x","p","o","r","t">>
NativeLib == NativePrefix \o <<"L","i","b">>
Bar == <<"B","a","r">>
Baz == <<"B","a","z">>

ClassDecl(lead, name) ==
    [t |-> "class", lead |-> lead, name |-> name, params |-> <<>>, ret |-> None]

FunDecl(name, params, ret) ==
    [t |-> "fun", lead |-> "none", name |-> name, params |-> params, ret |-> ret]

Param(type) == [colon |-> TRUE, type |-> type]
NoColonParam == [colon |-> FALSE, type |-> <<>>]

Nullable(type) == type \o <<"?">>

\* fun add(a: Int, b: Int): Int
FunAdd == FunDecl(<<"a","d","d">>, <<Param(KtInt), Param(KtInt)>>, KtInt)
\* fun get(a: Int?, b: IntArray): String?
FunGet == FunDecl(<<"g","e","t">>,
                  <<Param(Nullable(KtInt)), Param(KtInt \o ArraySuffix)>>,
                  Nullable(KtString))
\* fun run()
FunRun == FunDecl(<<"r","u","n">>, <<>>, None)
\* fun bad(a: Int, b: Foo): Int
FunBadParam == FunDecl(<<"b","a","d">>, <<Param(KtInt), Param(Foo)>>, KtInt)
\* fun mal(a): Int
FunMalformed == FunDecl(<<"m","a","l">>, <<NoColonParam>>, KtInt)
\* fun ret(): Foo
FunBadRet == FunDecl(<<"r","e","t">>, <<>>, Foo)

PackageAB == <<"a",".","b">>

\* file_path.stem of the files on disk: d/math.kt, d/Util.kt, d/x<n>.kt
StemOf(f) ==
    CASE f = 1 -> <<"m","a","t","h">>
      [] f = 2 -> <<"U","t","i","l">>
      [] OTHER -> <<"x">>

----------------------------------------------------------------------------
(* parse_kotlin_type *)

\* (type_name, is_nullable) of a type string without surrounding blanks
parse_kotlin_type(type_str) ==
    LET is_nullable == EndsWith(type_str, <<"?">>)
    IN  [type_name |-> IF is_nullable
                       THEN SubSeq(type_str, 1, Len(type_str) - 1)
                       ELSE type_str,
         is_nullable |-> is_nullable]

----------------------------------------------------------------------------
(* extract_package_and_class *)

LowerCase == <<"a","b","c","d","e","f","g","h","i","j","k","l","m",
               "n","o","p","q","r","s","t","u","v","w","x","y","z">>
UpperCase == <<"A","B","C","D","E","F","G","H","I","J","K","L","M",
               "N","O","P","Q","R","S","T","U","V","W","X","Y","Z">>

\* str.isupper and str.upper of one character
IsUpper(c) == \E i \in DOMAIN UpperCase : UpperCase[i] = c
Upper(c) ==
    IF \E i \in DOMAIN LowerCase : LowerCase[i] = c
    THEN UpperCase[CHOOSE i \in DOMAIN LowerCase : LowerCase[i] = c]
    ELSE c

\* str.replace('.', '/')
RECURSIVE DotsToSlashes(_)
DotsToSlashes(s) ==
    IF s = <<>> THEN <<>>
    ELSE <<IF Head(s) = "." THEN "/" ELSE Head(s)>> \o DotsToSlashes(Tail(s))

\* class_patterns[0]: an optional visibility modifier, then class|object
Pattern1Matches(d) == d.t = "class" /\ d.lead \in {"none", "vis"}

\* class_patterns[1]: any number of abstract|final|open|sealed|data|inner
Pattern2Matches(d) == d.t = "class" /\ d.lead \in {"none", "mod"}

\* class_patterns[2] has a look-behind of variable width, (?<!@\w{0,20}):
\* re.finditer compiles the pattern and raises re.error
Pattern3Compiles == FALSE

\* the candidates the inner loop accepts: not "NativeExport", not Native...
Accepted(candidate) ==
    candidate # NativeExportName /\ ~StartsWith(candidate, NativePrefix)

\* the inner loop over one pattern's matches: the first accepted candidate
RECURSIVE FirstAccepted(_, _, _)
FirstAccepted(text, i, pattern) ==
    IF i > Len(text) THEN None
    ELSE IF (CASE pattern = 1 -> Pattern1Matches(text[i])
               [] pattern = 2 -> Pattern2Matches(text[i])
               [] OTHER       -> text[i].t = "class")
            /\ Accepted(text[i].name)
         THEN text[i].name
         ELSE FirstAccepted(text, i + 1, pattern)

\* the loop over class_patterns: [raised, class_name]
RECURSIVE SearchPatterns(_, _)
SearchPatterns(text, pattern) ==
    IF pattern > 3 THEN [raised |-> FALSE, class_name |-> None]
    ELSE IF pattern = 3 /\ ~Pattern3Compiles
         THEN [raised |-> TRUE, class_name |-> None]
         ELSE LET name == FirstAccepted(text, 1, pattern)
              IN  IF Truthy(name) THEN [raised |-> FALSE, class_name |-> name]
                  ELSE SearchPatterns(text, pattern + 1)

\* the class name inferred from the file name
FromFileName(stem) ==
    IF ~IsUpper(stem[1]) THEN <<Upper(stem[1])>> \o Tail(stem) ELSE stem

\* [raised |-> TRUE] where the call raises, else the value it returns
extract_package_and_class(file, stem) ==
    LET package_name == file.package
        found_class == SearchPatterns(file.text, 1)
    IN  IF found_class.raised THEN [raised |-> TRUE, value |-> None]
        ELSE LET name == IF ~Truthy(found_class.class_name)
                         THEN FromFileName(stem)
                         ELSE found_class.class_name
             IN  [raised |-> FALSE,
                  value |-> IF Truthy(package_name) /\ Truthy(name)
                            THEN DotsToSlashes(package_name) \o <<"/">> \o name
                            ELSE IF Truthy(name) THEN name
                            ELSE None]

----------------------------------------------------------------------------
(* extract_native_exports *)

\* the loop over params.split(','): [ok, sig_parts joined]
RECURSIVE ParamSigs(_, _)
ParamSigs(params, i) ==
    IF i > Len(params) THEN [ok |-> TRUE, joined |-> <<>>]
    ELSE IF ~params[i].colon THEN [ok |-> FALSE, joined |-> <<>>]
    ELSE LET parsed == parse_kotlin_type(params[i].type)
             psig == kotlin_to_jni_type(parsed.type_name, parsed.is_nullable)
         IN  IF ~Truthy(psig) THEN [ok |-> FALSE, joined |-> <<>>]
             ELSE LET rest == ParamSigs(params, i + 1)
                  IN  [ok |-> rest.ok, joined |-> psig \o rest.joined]

\* the signature of one matched function, None where it is rejected
Signature(fn) ==
    LET ret == IF Truthy(fn.ret) THEN fn.ret ELSE KtUnit
        ps == ParamSigs(fn.params, 1)
    IN  IF ~ps.ok THEN None
        ELSE LET parsed == parse_kotlin_type(ret)
                 ret_sig == kotlin_to_jni_type(parsed.type_name, parsed.is_nullable)
             IN  IF ~Truthy(ret_sig) THEN None
                 ELSE <<"(">> \o ps.joined \o <<")">> \o ret_sig

\* methods_found: (name, signature) of the functions of the text, in order
RECURSIVE MethodsFound(_, _)
MethodsFound(text, i) ==
    IF i > Len(text) THEN <<>>
    ELSE (IF text[i].t = "fun" /\ Signature(text[i]) # None
          THEN <<<<text[i].name, Signature(text[i])>>>>
          ELSE <<>>)
         \o MethodsFound(text, i + 1)

\* class_methods[cls].extend(methods) on a dict kept in insertion order
Extend(cm, cls, methods) ==
    IF \E i \in DOMAIN cm : cm[i].cls = cls
    THEN LET i == CHOOSE j \in DOMAIN cm : cm[j].cls = cls
         IN  [cm EXCEPT ![i].methods = @ \o methods]
    ELSE Append(cm, [cls |-> cls, methods |-> methods])

IdleExtract ==
    /\ kt_files = <<>>
    /\ eidx = 0
    /\ class_name = None
    /\ class_methods = <<>>
    /\ estatus = "idle"

\* one iteration of `for kt_file in kotlin_files`
ProcessFile ==
    /\ estatus = "running"
    /\ eidx <= Len(kt_files)
    /\ LET kt_file == kt_files[eidx]
           file == disk[kt_file.file]
           cls == extract_package_and_class(file, StemOf(kt_file.file))
           methods_found == MethodsFound(file.text, 1)
       IN  IF ~file.readable
           THEN /\ eidx' = eidx + 1
                /\ UNCHANGED <<class_name, class_methods, estatus>>
           ELSE IF cls.raised
           THEN /\ estatus' = "raised"
                /\ UNCHANGED <<eidx, class_name, class_methods>>
           ELSE IF ~Truthy(cls.value)
           THEN /\ eidx' = eidx + 1
                /\ class_name' = cls.value
                /\ UNCHANGED <<class_methods, estatus>>
           ELSE /\ eidx' = eidx + 1
                /\ class_name' = cls.value
                /\ class_methods' = IF methods_found # <<>>
                                    THEN Extend(class_methods, cls.value, methods_found)
                                    ELSE class_methods
                /\ UNCHANGED estatus
    /\ UNCHANGED <<kt_files, disk>>
    /\ UNCHANGED <<mapVars, scanVars, genVars, loadVars>>

\* return dict(class_methods)
ReturnExports ==
    /\ estatus = "running"
    /\ eidx > Len(kt_files)
    /\ estatus' = "done"
    /\ UNCHANGED <<kt_files, eidx, class_name, class_methods, disk>>
    /\ UNCHANGED <<mapVars, scanVars, genVars, loadVars>>

----------------------------------------------------------------------------
(* The texts the files of the model hold *)

\* how many declarations the text of a single scanned file holds at most
MaxDecls == 4

\* how many functions follow the class declaration of a file scanned with others
MaxFuns == 2

ClassDecls ==
    {ClassDecl("none", Foo), ClassDecl("mod", Bar), ClassDecl("vismod", Baz),
     ClassDecl("vis", NativeLib), ClassDecl("other", NativeExportName)}

FunDecls == {FunAdd, FunGet, FunRun, FunBadParam, FunMalformed, FunBadRet}

Packages == {None, PackageAB}

File(package, readable, text) ==
    [package |-> package, readable |-> readable, text |-> text]

NoDisk == [f \in FileIds |-> File(None, FALSE, <<>>)]

\* one file with any text of up to MaxDecls declarations
SingleFiles ==
    {File(p, TRUE, text) :
        p \in Packages,
        text \in SeqsUpTo(ClassDecls \cup {FunAdd, FunRun, FunBadParam}, MaxDecls)}

\* files scanned with others: at most one class declaration, then functions
SiblingFiles ==
    {File(PackageAB, FALSE, <<>>)}
    \cup {File(PackageAB, TRUE, c \o fs) :
            c \in {<<>>} \cup {<<d>> : d \in ClassDecls \ {ClassDecl("vis", NativeLib)}},
            fs \in SeqsUpTo(FunDecls \ {FunGet}, MaxFuns)}

\* extract_native_exports([d/math.kt])
InitExtractOne ==
    /\ \E file \in SingleFiles : disk = [f \in FileIds |-> file]
    /\ kt_files = <<PathObj("rel", 1)>>
    /\ eidx = 1
    /\ class_name = None
    /\ class_methods = <<>>
    /\ estatus = "running"

\* extract_native_exports of every file on disk, in one of the orders
InitExtractAll ==
    /\ disk \in [FileIds -> SiblingFiles]
    /\ kt_files \in Orders({PathObj("rel", f) : f \in FileIds})
    /\ eidx = 1
    /\ class_name = None
    /\ class_methods = <<>>
    /\ estatus = "running"

----------------------------------------------------------------------------
(* generate_cpp_file *)

(* The file written, as its statements in the order they are written: the
   header comment's two counts, the statements of JNI_OnLoad and those of
   JNI_OnUnload.  A statement is [op, cls, name, sig]; cls, name and sig
   hold the strings the statement is written with.                       *)

Stmt(op, cls, name, s) == [op |-> op, cls |-> cls, name |-> name, sig |-> s]

\* the --helper-class default, and another qualified name
DefaultHelper == <<"saturn::platform::agdk::JNIHelper">>
OtherHelper == <<"game::jni::Helper">>

NoOutput == [classes |-> 0, methods |-> 0, load |-> <<>>, unload |-> <<>>]

\* class_name.split('/')[-1]
RECURSIVE LastSegment(_)
LastSegment(s) ==
    IF \E i \in DOMAIN s : s[i] = "/" THEN LastSegment(Tail(s)) ELSE s

\* sum(len(methods) for methods in class_methods.values())
RECURSIVE TotalMethods(_)
TotalMethods(cm) ==
    IF cm = <<>> THEN 0 ELSE Len(Head(cm).methods) + TotalMethods(Tail(cm))

\* the getStaticMethodID calls of one class
RECURSIVE MethodStmts(_, _)
MethodStmts(cls, methods) ==
    IF methods = <<>> THEN <<>>
    ELSE <<Stmt("getStaticMethodID", cls, Head(methods)[1], Head(methods)[2])>>
         \o MethodStmts(cls, Tail(methods))

\* the block of one class, without the early return
ClassBlockNoReturn(entry) ==
    <<Stmt("findClass", entry.cls, <<>>, <<>>),
      Stmt("createGlobalRef", <<>>, <<>>, <<>>)>>
    \o MethodStmts(entry.cls, entry.methods)

\* the block of one class
ClassBlock(entry) ==
    <<Stmt("findClass", entry.cls, <<>>, <<>>),
      Stmt("ifNullReturnErr", LastSegment(entry.cls), <<>>, <<>>),
      Stmt("createGlobalRef", <<>>, <<>>, <<>>)>>
    \o MethodStmts(entry.cls, entry.methods)

\* the blocks of `for class_name, methods in class_methods.items()`
RECURSIVE ClassBlocks(_)
ClassBlocks(cm) ==
    IF cm = <<>> THEN <<>> ELSE ClassBlock(Head(cm)) \o ClassBlocks(Tail(cm))

\* JNI_OnUnload as written: the helper's name is part of the literal
UnloadStmts(hc) ==
    <<Stmt("shutdown", DefaultHelper, <<>>, <<>>),
      Stmt("Logger::shutdown", <<>>, <<>>, <<>>)>>

generate_cpp_file(cm, hc) ==
    [classes |-> Len(cm),
     methods |-> TotalMethods(cm),
     load |-> <<Stmt("Logger::initialize", <<>>, <<>>, <<>>),
                Stmt("getInstance", hc, <<>>, <<>>),
                Stmt("initialize", <<>>, <<>>, <<>>)>>
              \o ClassBlocks(cm)
              \o <<Stmt("return", <<"JNI_VERSION_1_6">>, <<>>, <<>>)>>,
     unload |-> UnloadStmts(hc)]

----------------------------------------------------------------------------
(* main *)

IdleLoad ==
    /\ lpc = "idle"
    /\ ip = 0
    /\ helper = None
    /\ clazzRef = None
    /\ held = {}
    /\ logging = FALSE
    /\ events = <<>>
    /\ result = None

IdleGen ==
    /\ gpc = "idle"
    /\ run = 0
    /\ helper_class = DefaultHelper
    /\ output = NoOutput
    /\ firstOutput = NoOutput

\* kotlin_files = find_kotlin_files(args.input), then exit code 1 on no file,
\* else the call of extract_native_exports(kotlin_files)
MainExtract ==
    /\ gpc = "scan"
    /\ spc = "done"
    /\ IF found = <<>>
       THEN /\ gpc' = "exit1"
            /\ UNCHANGED extVars
       ELSE /\ gpc' = "extract"
            /\ kt_files' = found
            /\ eidx' = 1
            /\ class_name' = None
            /\ class_methods' = <<>>
            /\ estatus' = "running"
    /\ UNCHANGED <<run, helper_class, output, firstOutput>>
    /\ UNCHANGED <<mapVars, scanVars, disk, loadVars>>

\* exit code 0 with a warning on no export, else generate_cpp_file
MainGenerate ==
    /\ gpc = "extract"
    /\ estatus = "done"
    /\ IF class_methods = <<>>
       THEN /\ gpc' = "exit0"
            /\ UNCHANGED output
       ELSE /\ gpc' = "written"
            /\ output' = generate_cpp_file(class_methods, helper_class)
    /\ UNCHANGED <<run, helper_class, firstOutput>>
    /\ UNCHANGED <<mapVars, scanVars, disk, extVars, loadVars>>

\* the generator is run once more, on the same arguments and the same disk
RunAgain ==
    /\ run = 1
    /\ lpc = "idle"
    /\ gpc \in {"written", "exit0", "exit1"}
    /\ run' = 2
    /\ firstOutput' = output
    /\ output' = NoOutput
    /\ gpc' = "scan"
    /\ sidx' = 1
    /\ kotlin_files' = <<>>
    /\ found' = <<>>
    /\ spc' = "loop"
    /\ kt_files' = <<>>
    /\ eidx' = 0
    /\ class_name' = None
    /\ class_methods' = <<>>
    /\ estatus' = "idle"
    /\ UNCHANGED <<input_paths, helper_class, disk>>
    /\ UNCHANGED <<mapVars, loadVars>>

----------------------------------------------------------------------------
(* The generated JNI_OnLoad and JNI_OnUnload, run by a JVM *)

Event(op, cls, name, ok) == [op |-> op, cls |-> cls, name |-> name, ok |-> ok]

\* the JVM loads the library and calls JNI_OnLoad
OnLoadEnter ==
    /\ lpc = "ready"
    /\ gpc = "written"
    /\ lpc' = "loading"
    /\ ip' = 1
    /\ UNCHANGED <<helper, clazzRef, held, logging, events, result>>
    /\ UNCHANGED <<mapVars, scanVars, disk, extVars, genVars>>

\* one statement of JNI_OnLoad; findClass answers a class or null
OnLoadStep ==
    /\ lpc = "loading"
    /\ LET st == output.load[ip]
       IN  CASE st.op = "Logger::initialize" ->
                  /\ logging' = TRUE
                  /\ ip' = ip + 1
                  /\ UNCHANGED <<lpc, helper, clazzRef, held, events, result>>
             [] st.op = "getInstance" ->
                  /\ helper' = st.cls
                  /\ ip' = ip + 1
                  /\ UNCHANGED <<lpc, clazzRef, held, logging, events, result>>
             [] st.op = "initialize" ->
                  /\ held' = held \cup {helper}
                  /\ ip' = ip + 1
                  /\ UNCHANGED <<lpc, helper, clazzRef, logging, events, result>>
             [] st.op = "findClass" ->
                  /\ \E ok \in BOOLEAN :
                        /\ clazzRef' = IF ok THEN st.cls ELSE None
                        /\ events' = Append(events, Event("findClass", st.cls, <<>>, ok))
                  /\ ip' = ip + 1
                  /\ UNCHANGED <<lpc, helper, held, logging, result>>
             [] st.op = "ifNullReturnErr" ->
                  /\ IF clazzRef = None
                     THEN /\ lpc' = "failed"
                          /\ result' = <<"JNI_ERR">>
                          /\ UNCHANGED ip
                     ELSE /\ ip' = ip + 1
                          /\ UNCHANGED <<lpc, result>>
                  /\ UNCHANGED <<helper, clazzRef, held, logging, events>>
             [] st.op = "createGlobalRef" ->
                  /\ events' = Append(events, Event("createGlobalRef", clazzRef, <<>>, TRUE))
                  /\ ip' = ip + 1
                  /\ UNCHANGED <<lpc, helper, clazzRef, held, logging, result>>
             [] st.op = "getStaticMethodID" ->
                  /\ events' = Append(events,
                                      Event("getStaticMethodID", st.cls, st.name, TRUE))
                  /\ ip' = ip + 1
                  /\ UNCHANGED <<lpc, helper, clazzRef, held, logging, result>>
             [] st.op = "return" ->
                  /\ lpc' = "loaded"
                  /\ result' = st.cls
                  /\ UNCHANGED <<ip, helper, clazzRef, held, logging, events>>
    /\ UNCHANGED <<mapVars, scanVars, disk, extVars, genVars>>

\* the JVM unloads the library: JNI_OnUnload's first statement
OnUnloadShutdown ==
    /\ lpc = "loaded"
    /\ output.unload[1].op = "shutdown"
    /\ held' = held \ {output.unload[1].cls}
    /\ lpc' = "unloading"
    /\ UNCHANGED <<ip, helper, clazzRef, logging, events, result>>
    /\ UNCHANGED <<mapVars, scanVars, disk, extVars, genVars>>

\* JNI_OnUnload's second statement, and its return
OnUnloadLogger ==
    /\ lpc = "unloading"
    /\ output.unload[2].op = "Logger::shutdown"
    /\ logging' = FALSE
    /\ lpc' = "unloaded"
    /\ UNCHANGED <<ip, helper, clazzRef, held, events, result>>
    /\ UNCHANGED <<mapVars, scanVars, disk, extVars, genVars>>

----------------------------------------------------------------------------
(* The runs of the model *)

\* how many classes a grouping handed to generate_cpp_file holds at most
MaxClasses == 2

ClassNames == {<<"a","/","b","/","F","o","o">>, Bar, Baz}

MethodAdd == <<<<"a","d","d">>, <<"(","I","I",")","I">>>>
MethodRun == <<<<"r","u","n">>, <<"(",")","V">>>>

MethodLists == {<<MethodAdd>>, <<MethodAdd, MethodRun>>, <<MethodRun, MethodAdd>>}

\* the groupings: distinct classes, each with a method list that is not empty
Groupings ==
    {g \in SeqsUpTo([cls : ClassNames, methods : MethodLists], MaxClasses) :
        /\ g # <<>>
        /\ \A i, j \in DOMAIN g : i # j => g[i].cls # g[j].cls}

\* generate_cpp_file(grouping, _, helper_class), and the library in a JVM
InitLoadRun ==
    /\ gpc = "extract"
    /\ run = 1
    /\ helper_class \in {DefaultHelper, OtherHelper}
    /\ output = NoOutput
    /\ firstOutput = NoOutput
    /\ kt_files = <<>>
    /\ eidx = 1
    /\ class_name = None
    /\ class_methods \in Groupings
    /\ estatus = "done"
    /\ lpc = "ready"
    /\ ip = 0
    /\ helper = None
    /\ clazzRef = None
    /\ held = {}
    /\ logging = FALSE
    /\ events = <<>>
    /\ result = None

\* the files of the runs of main
MainFiles ==
    {File(PackageAB, TRUE, <<ClassDecl("none", Foo), FunAdd>>),
     File(PackageAB, TRUE, <<ClassDecl("mod", Bar), FunRun, FunBadParam>>),
     File(PackageAB, TRUE, <<ClassDecl("none", Foo)>>),
     File(PackageAB, TRUE, <<FunAdd>>)}

\* main, run twice on the same arguments and disk
InitMainRun ==
    /\ InitScanCall
    /\ disk \in [FileIds -> MainFiles]
    /\ IdleExtract
    /\ gpc = "scan"
    /\ run = 1
    /\ helper_class = DefaultHelper
    /\ output = NoOutput
    /\ firstOutput = NoOutput
    /\ IdleLoad

----------------------------------------------------------------------------
(* Specifications *)

InitMap == InitMapCall /\ IdleScan /\ disk = NoDisk /\ IdleExtract /\ IdleGen /\ IdleLoad

NextMap == MapType \/ MapArrayOf

SpecMap == InitMap /\ [][NextMap]_vars

InitScan == InitScanCall /\ IdleMap /\ disk = NoDisk /\ IdleExtract /\ IdleGen /\ IdleLoad

NextScan == ScanInput \/ ReturnFiles

SpecScan == InitScan /\ [][NextScan]_vars

NextExtract == ProcessFile \/ ReturnExports

InitOne == InitExtractOne /\ IdleMap /\ IdleScan /\ IdleGen /\ IdleLoad

SpecExtractOne == InitOne /\ [][NextExtract]_vars

InitAll == InitExtractAll /\ IdleMap /\ IdleScan /\ IdleGen /\ IdleLoad

SpecExtractAll == InitAll /\ [][NextExtract]_vars

InitMain == InitMainRun /\ IdleMap

NextMain ==
    \/ ScanInput
    \/ ReturnFiles
    \/ MainExtract
    \/ ProcessFile
    \/ ReturnExports
    \/ MainGenerate
    \/ RunAgain

SpecMain == InitMain /\ [][NextMain]_vars

InitLoad == InitLoadRun /\ IdleMap /\ IdleScan /\ disk = NoDisk

NextLoad ==
    \/ MainGenerate
    \/ OnLoadEnter
    \/ OnLoadStep
    \/ OnUnloadShutdown
    \/ OnUnloadLogger

SpecLoad == InitLoad /\ [][NextLoad]_vars

----------------------------------------------------------------------------
(* Properties *)

\* namespace-with-slashes + "/" + class name, or the bare class name
QualifiedName(package, simple) ==
    IF package = None THEN simple ELSE DotsToSlashes(package) \o <<"/">> \o simple

\* the type name without nullability marker and array suffixes
RECURSIVE BaseName(_)
BaseName(t) ==
    IF EndsWith(t, <<"?">>) THEN BaseName(SubSeq(t, 1, Len(t) - 1))
    ELSE IF EndsWith(t, ArraySuffix)
         THEN BaseName(SubSeq(t, 1, Len(t) - Len(ArraySuffix)))
         ELSE t

\* a function the extractor has no reason to reject
WellTyped(fn) ==
    /\ \A i \in DOMAIN fn.params :
          fn.params[i].colon /\ BaseName(fn.params[i].type) \in TableNames
    /\ fn.ret # None => BaseName(fn.ret) \in TableNames

FunIndexes(text) == {i \in DOMAIN text : text[i].t = "fun"}
ClassIndexes(text) == {i \in DOMAIN text : text[i].t = "class"}

\* the class a function is declared in: the nearest class declared before it
DeclaringClass(text, i) ==
    text[CHOOSE c \in ClassIndexes(text) :
            c < i /\ \A d \in ClassIndexes(text) : d < i => d <= c].name

\* the names of the declarations of text at the indexes of keep, in order
RECURSIVE NamesAt(_, _, _)
NamesAt(text, i, keep) ==
    IF i > Len(text) THEN <<>>
    ELSE (IF i \in keep THEN <<text[i].name>> ELSE <<>>) \o NamesAt(text, i + 1, keep)

MethodNames(methods) == [i \in DOMAIN methods |-> methods[i][1]]

\* C1: two runs of the generator on the same arguments and an unchanged disk
\* write the same file: the same class blocks in the same order, with the same
\* method registrations in each.
C1_SameOutputTwice ==
    (run = 2 /\ gpc = "written") => output = firstOutput

\* C2: one text declaring N well-typed annotated functions in M classes gives
\* M class bindings holding N functions, each function under the class that
\* declares it, in declaration order.
C2_OneBindingPerClass ==
    LET file == disk[1]
        text == file.text
        funs == FunIndexes(text)
        owners == {DeclaringClass(text, i) : i \in funs}
    IN  (/\ estatus = "done"
         /\ kt_files = <<PathObj("rel", 1)>>
         /\ \A i \in funs : WellTyped(text[i]) /\ \E c \in ClassIndexes(text) : c < i)
        => /\ Len(class_methods) = Cardinality(owners)
           /\ TotalMethods(class_methods) = Cardinality(funs)
           /\ \A e \in DOMAIN class_methods :
                 LET declared ==
                         {i \in funs :
                             QualifiedName(file.package, DeclaringClass(text, i))
                             = class_methods[e].cls}
                 IN  MethodNames(class_methods[e].methods) = NamesAt(text, 1, declared)

\* a class/object declaration whose name is neither the annotation's name nor
\* begins with its prefix
Qualifies(d) ==
    d.t = "class" /\ d.name # NativeExportName /\ ~StartsWith(d.name, NativePrefix)

\* the file d/math.kt has been scanned, or scanning it raised
ScannedOne ==
    /\ kt_files = <<PathObj("rel", 1)>>
    /\ disk[1].readable
    /\ eidx > 1 \/ estatus = "raised"

\* C3: where no declaration of the text qualifies as the owning class, the
\* call returns normally, with the file's base name, first character in upper
\* case, after the package with slashes for dots and a "/" where there is a
\* package.
C3_FileNameFallback ==
    (ScannedOne /\ \A i \in DOMAIN disk[1].text : ~Qualifies(disk[1].text[i]))
    => /\ estatus # "raised"
       /\ class_name = QualifiedName(disk[1].package, <<"M","a","t","h">>)

\* C4: a rejected function, an unreadable file and a file whose owning class
\* cannot be determined leave the rest alone: the run goes on to its end and
\* every well-typed function of every readable file with functions is in the
\* result, under the class of its file.
C4_DiagnosticsAreLocal ==
    /\ estatus # "raised"
    /\ estatus = "done" =>
          \A k \in DOMAIN kt_files :
             LET file == disk[kt_files[k].file]
                 owner == extract_package_and_class(file, StemOf(kt_files[k].file)).value
             IN  file.readable =>
                   \A i \in FunIndexes(file.text) :
                      WellTyped(file.text[i]) =>
                         \E e \in DOMAIN class_methods :
                            /\ class_methods[e].cls = owner
                            /\ \E m \in DOMAIN class_methods[e].methods :
                                  class_methods[e].methods[m][1] = file.text[i].name

\* C5: a file that two or more of the inputs resolve to, however they are
\* written, is in the returned list exactly once.
C5_EachFileOnce ==
    spc = "done" =>
       \A f \in FileIds :
          (\E i \in DOMAIN kotlin_files : kotlin_files[i].file = f)
          => Cardinality({i \in DOMAIN found : found[i].file = f}) = 1

FindIndexes == {i \in DOMAIN events : events[i].op = "findClass"}

\* what JNI_OnLoad is to do for class k when findClass answers ok
BlockEvents(k, ok) ==
    IF ok
    THEN <<Event("findClass", class_methods[k].cls, <<>>, TRUE),
           Event("createGlobalRef", class_methods[k].cls, <<>>, TRUE)>>
         \o [m \in DOMAIN class_methods[k].methods |->
               Event("getStaticMethodID", class_methods[k].cls,
                     class_methods[k].methods[m][1], TRUE)]
    ELSE <<Event("findClass", class_methods[k].cls, <<>>, FALSE)>>

\* the events of the classes from k on, when the first `failAt - 1` resolve
RECURSIVE EventsFrom(_, _)
EventsFrom(k, failAt) ==
    IF k > Len(class_methods) \/ k > failAt THEN <<>>
    ELSE BlockEvents(k, k # failAt) \o EventsFrom(k + 1, failAt)

IsPrefix(s, t) == Len(s) <= Len(t) /\ SubSeq(t, 1, Len(s)) = s

\* the class whose resolution failed, Len(class_methods) + 1 where none did
FailedAt ==
    IF \E i \in FindIndexes : ~events[i].ok
    THEN Cardinality(FindIndexes)
    ELSE Len(class_methods) + 1

\* C6: JNI_OnLoad resolves the classes in grouping order; a class that does not
\* resolve ends the load at once with JNI_ERR, with no global reference and no
\* method handle for it and nothing for the classes after it; a class's method
\* handles follow its findClass and createGlobalRef, in discovery order; and
\* JNI_VERSION_1_6 is returned only when every class resolved.
C6_LoadFailsFast ==
    lpc \in {"loading", "failed", "loaded", "unloading", "unloaded"} =>
       /\ IsPrefix(events, EventsFrom(1, FailedAt))
       /\ lpc = "failed" =>
             /\ result = <<"JNI_ERR">>
             /\ FailedAt <= Len(class_methods)
             /\ events = EventsFrom(1, FailedAt)
       /\ lpc \in {"loaded", "unloading", "unloaded"} =>
             /\ result = <<"JNI_VERSION_1_6">>
             /\ events = EventsFrom(1, Len(class_methods) + 1)
             /\ \A i \in FindIndexes : events[i].ok
       /\ result = <<"JNI_ERR">> => lpc = "failed"

\* the second class of a grouping did not resolve, after the first one did
C6_Witness ==
    /\ lpc = "failed"
    /\ result = <<"JNI_ERR">>
    /\ Cardinality(FindIndexes) = 2
    /\ Len(class_methods) = 2
    /\ \E i \in DOMAIN events : events[i].op = "getStaticMethodID"

\* C7: JNI_OnUnload releases the state held by the helper JNI_OnLoad obtained
\* with the configured name and initialized, before logging is shut down.
C7_UnloadReleasesHelper ==
    lpc \in {"unloading", "unloaded"} => helper_class \notin held

\* the descriptors JNI documents for the Kotlin primitives
JniLetter(t) ==
    CASE t = KtInt -> "I" [] t = KtFloat -> "F" [] t = KtDouble -> "D"
      [] t = KtLong -> "J" [] t = KtBoolean -> "Z" [] t = KtByte -> "B"
      [] t = KtShort -> "S" [] t = KtChar -> "C"

\* java.lang's wrapper class of each primitive
JniWrapper(t) ==
    CASE t = KtInt -> <<"I","n","t","e","g","e","r">>
      [] t = KtChar -> <<"C","h","a","r","a","c","t","e","r">>
      [] OTHER -> t

Primitives == TableNames \ {KtString, KtUnit}

\* C8: a primitive of the table maps to its one-letter descriptor when not
\* nullable and to its wrapper's object descriptor when nullable; String and
\* Unit map to the same descriptor either way.
C8_PrimitiveDescriptors ==
    mpc = "mapped" =>
       /\ ktype \in Primitives =>
             sig = IF nullable
                   THEN <<"L">> \o <<"j","a","v","a","/","l","a","n","g","/">>
                        \o JniWrapper(ktype) \o <<";">>
                   ELSE <<JniLetter(ktype)>>
       /\ ktype = KtString => sig = StringSig
       /\ ktype = KtUnit => sig = <<"V">>

\* Char? has been mapped to java.lang.Character
C8_Witness ==
    /\ mpc = "mapped"
    /\ ktype = KtChar
    /\ nullable
    /\ sig = JavaLang \o <<"C","h","a","r","a","c","t","e","r",";">>

\* C9: the descriptor of X + "Array" is "[" before the descriptor of X where X
\* maps, and the mapping fails where that of X fails; a name whose base is not
\* in the table fails whatever the nullability.
C9_ArrayOfElement ==
    /\ mpc = "array" =>
          sig = IF elemSig = None THEN None ELSE <<"[">> \o elemSig
    /\ (mpc # "start" /\ BaseName(ktype) \notin TableNames) => sig = None

\* IntArrayArray has been mapped, after IntArray and Int
C9_Witness ==
    /\ mpc = "array"
    /\ ktype = KtInt \o ArraySuffix \o ArraySuffix
    /\ elemSig = <<"[","I">>
    /\ sig = <<"[","[","I">>

\* C10: of several class/object declarations, the owning class the call returns
\* is the first in text order that qualifies, whatever modifiers precede the
\* declarations.
C10_FirstQualifyingDeclaration ==
    LET text == disk[1].text
        qualifying == {i \in DOMAIN text : Qualifies(text[i])}
    IN  (ScannedOne /\ qualifying # {} /\ estatus # "raised")
        => class_name =
              QualifiedName(disk[1].package,
                            text[CHOOSE i \in qualifying :
                                    \A j \in qualifying : i <= j].name)

====
